---- MODULE Spec2Model ----
(***************************************************************************)
(* Model of Scripts/bump_build_tag.py: the version bump command of the     *)
(* repository.  A run reads the version of the main app descriptor,        *)
(* computes the next version triple, rewrites three descriptors (.plist)   *)
(* and records the bump as a git commit and a git tag.                     *)
(*                                                                         *)
(* Text is a sequence of tokens.  A token is one character of a version    *)
(* string ("0".."9", ".", "-", "+"), one whitespace character (" ", "NL"   *)
(* for \n, "TAB" for \t, "CR" for \r, "VT" for \x0b, "FF" for \x0c), or    *)
(* one of the literals the regular expressions of the script match as a    *)
(* whole:                                                                  *)
(*   "KS" = <key>CFBundleShortVersionString</key>                          *)
(*   "KV" = <key>CFBundleVersion</key>                                     *)
(*   "K4" = <key>OWSBundleVersion4</key>                                   *)
(*   "SO" = <string>        "SC" = </string>                               *)
(*   "x"  = any other text of the descriptor                               *)
(* A descriptor in the binary form is the token "bplist00" and, for each   *)
(* entry, the token of its key ("bKS", "bKV", "bK4") and the characters of *)
(* its value; it holds none of the literals above.                         *)
(***************************************************************************)
EXTENDS Integers, Sequences, FiniteSets, TLC

VARIABLES
    pc,          \* position of the run in __main__
    argv,        \* [has_version, version, flags, other]: the command line
    args,        \* [has_version, version, channel]: the parsed command line
    plist,       \* file name -> text of the descriptor on disk
    orig,        \* file name -> text of the descriptor when the run started
    read,        \* file name -> text of the descriptor as plutil left it: the
                 \* text get_versions and set_versions read
    git0,        \* [commits, tags, tree]: the repository when the run started
    statusOut,   \* TRUE iff `git status --porcelain` printed something in this run
    diffOut,     \* TRUE iff `git diff --shortstat` printed something in this run
    converted,   \* descriptors handed to `plutil -convert xml1` in this run
    written,     \* descriptors rewritten by set_versions in this run, in order
    old,         \* [release, build]: the versions get_versions returned
    new,         \* the computed triple, as strings (lines 319-321)
    issued,      \* git commands issued through execute_command in this run
    commits,     \* commit messages of the repository, oldest first
    tags,        \* tag names of the repository
    tree,        \* [unstaged, staged]: the descriptors that differ from HEAD
    exit,        \* exit status of the run: "none", "0", "1" or "2"
    err,         \* which failure ended the run
    pin,         \* string handed to a parser on its own
    pout         \* [parser, result]: what the parser made of it

vars == <<pc, argv, args, plist, orig, read, git0, statusOut, diffOut, converted, written, old,
          new, issued, commits, tags, tree, exit, err, pin, pout>>

(***************************************************************************)
(* Bounds of the model.                                                    *)
(***************************************************************************)
\* number of version bumps a sequence of invocations commits; invocations
\* that fail are not counted
MaxBumps == 2
\* length of the strings handed to the parsers on their own
MaxLen == 6

(***************************************************************************)
(* Characters and strings.                                                 *)
(***************************************************************************)
DigitChars == <<"0", "1", "2", "3", "4", "5", "6", "7", "8", "9">>

Digit == {DigitChars[i] : i \in 1..Len(DigitChars)}

\* characters str.strip() removes and int() skips; \s of the regular expressions
Whitespace == {" ", "NL", "TAB", "CR", "VT", "FF"}

\* int(c) of one digit character
DigitVal(c) == (CHOOSE i \in 1..Len(DigitChars) : DigitChars[i] = c) - 1

\* \d+ : a non-empty run of digits
IsDigits(s) == Len(s) > 0 /\ \A i \in 1..Len(s) : s[i] \in Digit

\* value of a run of digits in base ten (Python integers do not overflow)
RECURSIVE DigitsToInt(_)
DigitsToInt(s) ==
    IF Len(s) = 0 THEN 0
    ELSE DigitsToInt(SubSeq(s, 1, Len(s) - 1)) * Len(DigitChars) + DigitVal(s[Len(s)])

\* str(n) of a non-negative integer
RECURSIVE NatToStr(_)
NatToStr(n) ==
    IF n < Len(DigitChars) THEN <<DigitChars[n + 1]>>
    ELSE NatToStr(n \div Len(DigitChars)) \o <<DigitChars[(n % Len(DigitChars)) + 1]>>

\* str(n)
str(n) == IF n < 0 THEN <<"-">> \o NatToStr(0 - n) ELSE NatToStr(n)

\* s.lstrip()
RECURSIVE lstrip(_)
lstrip(s) ==
    IF Len(s) > 0 /\ s[1] \in Whitespace THEN lstrip(Tail(s)) ELSE s

\* s.rstrip()
RECURSIVE rstrip(_)
rstrip(s) ==
    IF Len(s) > 0 /\ s[Len(s)] \in Whitespace THEN rstrip(SubSeq(s, 1, Len(s) - 1)) ELSE s

\* s.strip()
strip(s) == rstrip(lstrip(s))

\* the components of s between its dots
RECURSIVE SplitDots(_)
SplitDots(s) ==
    IF \A i \in 1..Len(s) : s[i] # "." THEN <<s>>
    ELSE LET d == CHOOSE i \in 1..Len(s) : s[i] = "." /\ \A j \in 1..(i - 1) : s[j] # "."
         IN  <<SubSeq(s, 1, d - 1)>> \o SplitDots(SubSeq(s, d + 1, Len(s)))

\* the strings a pattern anchored by $ must match in full: $ matches at the
\* end of the string and also just before a newline that ends the string
DollarBodies(s) ==
    {s} \cup (IF Len(s) > 0 /\ s[Len(s)] = "NL" THEN {SubSeq(s, 1, Len(s) - 1)} ELSE {})

\* (\d+)\.(\d+)\.(\d+) matching the whole of s
MatchesV3(s) ==
    LET p == SplitDots(s) IN Len(p) = 3 /\ \A i \in 1..3 : IsDigits(p[i])

\* int(text) raises ValueError: text is not optional whitespace, an optional
\* sign, optional whitespace, a run of digits and optional whitespace (the
\* int() of Python 2 skips whitespace after the sign as well)
int_raises(text) ==
    LET s    == strip(text)
        sign == Len(s) > 0 /\ s[1] \in {"+", "-"}
    IN  ~IsDigits(IF sign THEN lstrip(Tail(s)) ELSE s)

\* int(text) where it does not raise
int(text) ==
    LET s    == strip(text)
        sign == Len(s) > 0 /\ s[1] \in {"+", "-"}
        d    == IF sign THEN lstrip(Tail(s)) ELSE s
    IN  IF sign /\ s[1] = "-" THEN 0 - DigitsToInt(d) ELSE DigitsToInt(d)

(***************************************************************************)
(* Validation of the strings handed to set_versions.                       *)
(***************************************************************************)
is_valid_version_1(value) == \E b \in DollarBodies(value) : IsDigits(b)

is_valid_version_3(value) == \E b \in DollarBodies(value) : MatchesV3(b)

\* the fourth separator of the pattern is an unescaped dot: any character
\* but a newline
is_valid_version_4(value) ==
    \E b \in DollarBodies(value) : \E k \in 1..Len(b) :
        /\ b[k] # "NL"
        /\ MatchesV3(SubSeq(b, 1, k - 1))
        /\ IsDigits(SubSeq(b, k + 1, Len(b)))

(***************************************************************************)
(* Version values and their parsers.  A parser returns the version, or     *)
(* [failed |-> ...] when the script exits instead of returning.            *)
(***************************************************************************)
Version1(build) == [build |-> build]

Version3(major, minor, patch) == [major |-> major, minor |-> minor, patch |-> patch]

Version4(major, minor, patch, build) ==
    [major |-> major, minor |-> minor, patch |-> patch, build |-> build]

formatted1(v) == str(v.build)

formatted3(v) == str(v.major) \o <<".">> \o str(v.minor) \o <<".">> \o str(v.patch)

formatted4(v) ==
    str(v.major) \o <<".">> \o str(v.minor) \o <<".">> \o str(v.patch)
        \o <<".">> \o str(v.build)

Failed(why) == [failed |-> why]

IsFailed(r) == "failed" \in DOMAIN r

\* parse_version_3 without the check that formatting gives the text back
parse_version_3_NoRoundtrip(text) ==
    IF ~is_valid_version_3(text) THEN Failed("fail")
    ELSE LET b == CHOOSE c \in DollarBodies(text) : MatchesV3(c)
             p == SplitDots(b)
         IN  Version3(int(p[1]), int(p[2]), int(p[3]))

parse_version_3(text) ==
    IF ~is_valid_version_3(text) THEN Failed("fail")
    ELSE LET b == CHOOSE c \in DollarBodies(text) : MatchesV3(c)
             p == SplitDots(b)
             version == Version3(int(p[1]), int(p[2]), int(p[3]))
         IN  IF formatted3(version) # text THEN Failed("fail") ELSE version

parse_version_1(text) ==
    IF int_raises(text) THEN Failed("ValueError")
    ELSE LET version == Version1(int(text))
         IN  IF formatted1(version) # text THEN Failed("fail") ELSE version

(***************************************************************************)
(* Descriptors: searching a marker and splicing its value.                 *)
(***************************************************************************)
Files == <<"main", "sae", "nse">>

\* first index at or after j that holds no whitespace (\s*)
RECURSIVE SkipWhitespace(_, _)
SkipWhitespace(text, j) ==
    IF j <= Len(text) /\ text[j] \in Whitespace THEN SkipWhitespace(text, j + 1) ELSE j

\* last index of the run of digits and dots that starts at j (j - 1: no run)
RECURSIVE RunEnd(_, _)
RunEnd(text, j) ==
    IF j <= Len(text) /\ text[j] \in (Digit \cup {"."}) THEN RunEnd(text, j + 1) ELSE j - 1

\* the group of a pattern matches the whole of v:
\*   AnyDigitsAndDots  ([\d\.]+)         every value of set_versions
\*   ReleasePattern    (\d+\.\d+\.\d+)   the release value of get_versions
\*   BuildPattern      (\d+)             the build value of get_versions
AnyDigitsAndDots == "[\\d\\.]+"

ReleasePattern == "\\d+\\.\\d+\\.\\d+"

BuildPattern == "\\d+"

GroupMatches(pattern, v) ==
    CASE pattern = AnyDigitsAndDots ->
             Len(v) > 0 /\ \A i \in 1..Len(v) : v[i] \in (Digit \cup {"."})
      [] pattern = ReleasePattern -> MatchesV3(v)
      [] pattern = BuildPattern -> IsDigits(v)

\* <key>..</key>\s*<string>(value)</string> matches with the key at index i
MatchesAt(text, i, key, pattern) ==
    /\ text[i] = key
    /\ LET so == SkipWhitespace(text, i + 1)
           e  == RunEnd(text, so + 1)
       IN  /\ so <= Len(text) /\ text[so] = "SO"
           /\ e >= so + 1
           /\ e + 1 <= Len(text) /\ text[e + 1] = "SC"
           /\ GroupMatches(pattern, SubSeq(text, so + 1, e))

NoMatch == [found |-> FALSE]

\* the leftmost match with its key at index i or later, with start(1) and
\* end(1) of its group as the first and the last index of the value
RECURSIVE SearchFrom(_, _, _, _)
SearchFrom(text, i, key, pattern) ==
    IF i > Len(text) THEN NoMatch
    ELSE IF MatchesAt(text, i, key, pattern)
    THEN LET so == SkipWhitespace(text, i + 1)
         IN  [found |-> TRUE, start |-> so + 1, end |-> RunEnd(text, so + 1)]
    ELSE SearchFrom(text, i + 1, key, pattern)

\* regex.search(text)
search(text, key, pattern) == SearchFrom(text, 1, key, pattern)

\* match.group(1)
group1(text, m) == SubSeq(text, m.start, m.end)

\* text[:file_match.start(1)] + value + text[file_match.end(1):]
splice(text, m, value) ==
    SubSeq(text, 1, m.start - 1) \o value \o SubSeq(text, m.end + 1, Len(text))

\* get_versions of a descriptor text: [release, build] or Failed
get_versions(text) ==
    LET release_version_match == search(text, "KS", ReleasePattern)
        build_version_1_match == search(text, "KV", BuildPattern)
    IN  IF ~release_version_match.found THEN Failed("marker")
        ELSE IF ~build_version_1_match.found THEN Failed("marker")
        ELSE LET release_version == parse_version_3(group1(text, release_version_match))
                 build_version_1 == parse_version_1(group1(text, build_version_1_match))
             IN  IF IsFailed(release_version) THEN Failed("version")
                 ELSE IF IsFailed(build_version_1) THEN Failed("version")
                 ELSE [release |-> release_version, build |-> build_version_1]

\* set_versions with the three spans located in the text as it was read,
\* before the first replacement
set_versions_StaleSpans(text, release_version, build_version_1, build_version_4) ==
    LET m1 == search(text, "KS", AnyDigitsAndDots)
        m2 == search(text, "KV", AnyDigitsAndDots)
        m3 == search(text, "K4", AnyDigitsAndDots)
    IN  IF ~(m1.found /\ m2.found /\ m3.found) THEN Failed("marker")
        ELSE [text |-> splice(splice(splice(text, m1, release_version),
                                     m2, build_version_1), m3, build_version_4)]

\* set_versions that passes over a marker it does not find
set_versions_SkipMissing(text, release_version, build_version_1, build_version_4) ==
    LET m1 == search(text, "KS", AnyDigitsAndDots)
        t1 == IF m1.found THEN splice(text, m1, release_version) ELSE text
        m2 == search(t1, "KV", AnyDigitsAndDots)
        t2 == IF m2.found THEN splice(t1, m2, build_version_1) ELSE t1
        m3 == search(t2, "K4", AnyDigitsAndDots)
    IN  [text |-> IF m3.found THEN splice(t2, m3, build_version_4) ELSE t2]

\* set_versions that leaves CFBundleShortVersionString as it is
set_versions_KeepRelease(text, release_version, build_version_1, build_version_4) ==
    LET m2 == search(text, "KV", AnyDigitsAndDots)
    IN  IF ~m2.found THEN Failed("marker")
        ELSE LET t2 == splice(text, m2, build_version_1)
                 m3 == search(t2, "K4", AnyDigitsAndDots)
             IN  IF ~m3.found THEN Failed("marker")
                 ELSE [text |-> splice(t2, m3, build_version_4)]

\* lines 67-113: [text] is what is written back to the file; each of the
\* three replacements locates its span in the text the one before produced
set_versions(text, release_version, build_version_1, build_version_4) ==
    IF ~is_valid_version_3(release_version) THEN Failed("invalid")
    ELSE IF ~is_valid_version_1(build_version_1) THEN Failed("invalid")
    ELSE IF ~is_valid_version_4(build_version_4) THEN Failed("invalid")
    ELSE LET m1 == search(text, "KS", AnyDigitsAndDots)
         IN  IF ~m1.found THEN Failed("marker")
             ELSE LET t1 == splice(text, m1, release_version)
                      m2 == search(t1, "KV", AnyDigitsAndDots)
                  IN  IF ~m2.found THEN Failed("marker")
                      ELSE LET t2 == splice(t1, m2, build_version_1)
                               m3 == search(t2, "K4", AnyDigitsAndDots)
                           IN  IF ~m3.found THEN Failed("marker")
                               ELSE [text |-> splice(t2, m3, build_version_4)]

(***************************************************************************)
(* plutil -convert xml1 (line 285).  plutil is no code of this repository: *)
(* it reads the property list of the file, in the binary or in the xml     *)
(* form, and writes it anew in the xml form, in its own layout: the        *)
(* entries of a dictionary in the order of their keys, every key and every *)
(* value on a line of its own, indented with a tab.                        *)
(***************************************************************************)
\* the three keys, in the order plutil writes them
Keys == <<"KS", "KV", "K4">>

\* the keys as objects of a binary descriptor
BinaryKeys == <<"bKS", "bKV", "bK4">>

BinaryMagic == "bplist00"

\* <key>..</key> ws <string>value</string>
Entry(key, ws, value) == <<key>> \o ws \o <<"SO">> \o value \o <<"SC">>

\* an entry of the binary form: the key object and the value
BinaryEntry(key, value) ==
    <<BinaryKeys[CHOOSE i \in 1..Len(Keys) : Keys[i] = key]>> \o value

\* the white space plutil writes between a key and its value and between
\* two entries: a newline and the indentation
Layout == <<"NL", "TAB">>

\* position of the key in the order of the keys
Rank(key) == CHOOSE i \in 1..Len(Keys) : Keys[i] = key

\* the entries of run, which are in the order of their keys, and the entry
\* e, in the order of their keys (entries of one key stay in their order)
RECURSIVE InsertSorted(_, _)
InsertSorted(run, e) ==
    IF Len(run) = 0 THEN <<e>>
    ELSE IF Rank(run[Len(run)].key) <= Rank(e.key) THEN Append(run, e)
    ELSE Append(InsertSorted(SubSeq(run, 1, Len(run) - 1), e), run[Len(run)])

\* the entries of run as plutil writes them
RECURSIVE WriteEntries(_)
WriteEntries(run) ==
    IF Len(run) = 0 THEN <<>>
    ELSE Entry(run[1].key, Layout, run[1].value)
             \o (IF Len(run) > 1 THEN Layout ELSE <<>>)
             \o WriteEntries(Tail(run))

\* text from index i on, written anew; run holds the entries read so far
\* that no other text separates from index i.  White space between the
\* elements and the mark of the binary form are not part of the property
\* list; other text stays where it is.
RECURSIVE Reserialise(_, _, _)
Reserialise(text, i, run) ==
    IF i > Len(text) THEN WriteEntries(run)
    ELSE IF \E k \in 1..Len(Keys) :
                text[i] = Keys[k] /\ MatchesAt(text, i, Keys[k], AnyDigitsAndDots)
    THEN LET so == SkipWhitespace(text, i + 1)
             e  == RunEnd(text, so + 1)
         IN  Reserialise(text, e + 2,
                         InsertSorted(run, [key |-> text[i],
                                            value |-> SubSeq(text, so + 1, e)]))
    ELSE IF \E k \in 1..Len(Keys) : text[i] = BinaryKeys[k] /\ RunEnd(text, i + 1) > i
    THEN LET k == CHOOSE j \in 1..Len(Keys) : text[i] = BinaryKeys[j]
             e == RunEnd(text, i + 1)
         IN  Reserialise(text, e + 1,
                         InsertSorted(run, [key |-> Keys[k],
                                            value |-> SubSeq(text, i + 1, e)]))
    ELSE IF text[i] \in Whitespace \cup {BinaryMagic}
    THEN Reserialise(text, i + 1, run)
    ELSE WriteEntries(run) \o <<text[i]>> \o Reserialise(text, i + 1, <<>>)

\* the property list of the text in the xml form plutil writes
xml1(text) == Reserialise(text, 1, <<>>)

\* the text plutil -convert xml1 leaves in a file that held text: the
\* property list written anew; a file that is in the form plutil writes
\* keeps its text
plutil(text) == xml1(text)

(***************************************************************************)
(* The inputs of the model: descriptor texts, command lines.               *)
(***************************************************************************)
V123 == <<"1", ".", "2", ".", "3">>

V200 == <<"2", ".", "0", ".", "0">>

\* the usual descriptor, indented with tabs, one of its lines ended by a
\* carriage return and a newline; its build counter gains a digit when it
\* is bumped
MainUsual ==
    <<"x">> \o Entry("KS", <<"NL", "TAB">>, V123) \o <<"x">>
        \o Entry("KV", <<"NL", "TAB">>, <<"9">>) \o <<"x">>
        \o Entry("K4", <<"CR", "NL", "TAB">>, V123 \o <<".", "9">>) \o <<"x">>

\* no OWSBundleVersion4 marker
MainNoVersion4 == Entry("KS", <<>>, V123) \o Entry("KV", <<>>, <<"4">>) \o <<"x">>

\* no CFBundleShortVersionString marker
MainNoRelease == Entry("KV", <<>>, <<"4">>) \o Entry("K4", <<>>, V123 \o <<".", "4">>)

\* a release version with a leading zero
MainLeadingZero ==
    Entry("KS", <<>>, <<"0", "1", ".", "2", ".", "3">>) \o Entry("KV", <<>>, <<"9">>)
        \o Entry("K4", <<>>, V123 \o <<".", "9">>)

\* CFBundleVersion twice, the first in a dictionary of its own (the text
\* "x" before and after it) and with a value in the four component form the
\* key held before OWSBundleVersion4 was introduced; the descriptor is in
\* the form plutil writes
MainTwiceLegacy ==
    Entry("KS", Layout, V123) \o <<"x">> \o Entry("KV", Layout, V123 \o <<".", "5">>)
        \o <<"x">> \o Entry("KV", Layout, <<"5">>) \o Layout
        \o Entry("K4", Layout, V123 \o <<".", "5">>)

\* a descriptor in the binary form
MainBinary ==
    <<BinaryMagic>> \o BinaryEntry("KS", V123) \o BinaryEntry("KV", <<"4">>)
        \o BinaryEntry("K4", V123 \o <<".", "4">>)

MainTexts ==
    {MainUsual, MainNoVersion4, MainNoRelease, MainLeadingZero, MainTwiceLegacy,
     MainBinary}

\* versions that disagree with the main descriptor, keys in another order
\* than plutil writes them, no line breaks
SecondaryDisagrees ==
    Entry("K4", <<>>, <<"9", ".", "9", ".", "9", ".", "9">>)
        \o Entry("KV", <<" ">>, <<"1">>) \o <<"x">> \o Entry("KS", <<>>, V200)

\* no CFBundleVersion marker
SecondaryNoBuild ==
    Entry("KS", <<"FF">>, V123) \o <<"x">> \o Entry("K4", <<"VT">>, V123 \o <<".", "9">>)

\* values of the wrong shape under every key, in the form plutil writes
SecondaryLegacy ==
    Entry("KS", Layout, <<"1", ".", "2">>) \o Layout
        \o Entry("KV", Layout, V200 \o <<".", "1">>) \o Layout
        \o Entry("K4", Layout, <<"7">>)

\* the texts of the share extension descriptor
SecondaryTexts == {SecondaryDisagrees, SecondaryNoBuild, SecondaryLegacy}

\* the texts of the notification service extension descriptor
LastTexts == {SecondaryNoBuild, SecondaryLegacy}

\* --version is absent, or present with one of these strings
VersionArgs ==
    {<<>>, <<" ", "TAB">> \o V200 \o <<"CR", "NL">>, <<"0", "2", ".", "0", ".", "0">>}

\* a command line: --version with its string or not, then the channel flags
\* of the set flags, then the argument other ("none": there is none)
CommandLine(has_version, version, flags, other) ==
    [has_version |-> has_version, version |-> version, flags |-> flags, other |-> other]

\* the channel flags of the command lines argparse accepts; --internal and
\* --beta differ from --nightly in the words of the commit message and of
\* the tag only
FlagSets == {{}, {"nightly"}}

Accepted ==
    {CommandLine(FALSE, <<>>, f, "none") : f \in FlagSets}
        \cup {CommandLine(TRUE, v, f, "none") : v \in VersionArgs, f \in FlagSets}

\* command lines on which parse_args ends the process
Refused ==
    {CommandLine(FALSE, <<>>, {"internal", "beta"}, "none"),
     CommandLine(FALSE, <<>>, {}, "--bogus"),
     CommandLine(FALSE, <<>>, {}, "--help")}

CommandLines == Accepted \cup Refused

\* lines 238-250: parser.parse_args().  Two flags of the mutually exclusive
\* group end the process with status 2 when the second is read, --help
\* prints the usage and ends it with status 0, an argument the parser does
\* not know ends it with status 2 once the command line is read; otherwise
\* the result is the namespace, with the channel is_internal, is_nightly
\* and is_beta stand for
parse_args(a) ==
    IF Cardinality(a.flags) > 1 THEN [exit |-> "2"]
    ELSE IF a.other = "--help" THEN [exit |-> "0"]
    ELSE IF a.other # "none" THEN [exit |-> "2"]
    ELSE [has_version |-> a.has_version,
          version     |-> a.version,
          channel     |-> IF a.flags = {} THEN "production"
                          ELSE CHOOSE c \in a.flags : TRUE]

\* the command line without arguments and what parse_args makes of it
NoArgv == CommandLine(FALSE, <<>>, {}, "none")

NoArgs == parse_args(NoArgv)

None == [none |-> TRUE]

\* the working tree with no descriptor that differs from HEAD
Clean == [unstaged |-> {}, staged |-> {}]

\* directories the command is run from: find_project_root accepts the
\* project root and every directory below it
Cwds ==
    {"<root>", "<root>/Signal", "<root>/SignalShareExtension",
     "<root>/NotificationServiceExtension", "<root>/Scripts"}

\* the descriptors at or below the directory (lines 255-263)
Under(cwd) ==
    CASE cwd = "<root>"                              -> {"main", "sae", "nse"}
      [] cwd = "<root>/Signal"                       -> {"main"}
      [] cwd = "<root>/SignalShareExtension"         -> {"sae"}
      [] cwd = "<root>/NotificationServiceExtension" -> {"nse"}
      [] OTHER                                       -> {}

(***************************************************************************)
(* __main__, lines 294-321: the next version triple, as strings, or Failed *)
(***************************************************************************)
\* the explicit mode without the reset of the build counter
next_versions_KeepBuild(a, old_release_version, old_build_version_1) ==
    IF a.has_version /\ a.version # <<>>
    THEN LET new_release_version_3 == parse_version_3(strip(a.version))
         IN  IF IsFailed(new_release_version_3) THEN Failed("version")
             ELSE [release_version_3 |-> formatted3(new_release_version_3),
                   build_version_1   |-> formatted1(old_build_version_1),
                   build_version_4   |-> formatted4(Version4(new_release_version_3.major,
                                                             new_release_version_3.minor,
                                                             new_release_version_3.patch,
                                                             old_build_version_1.build))]
    ELSE [release_version_3 |-> formatted3(old_release_version),
          build_version_1   |-> formatted1(Version1(old_build_version_1.build + 1)),
          build_version_4   |-> formatted4(Version4(old_release_version.major,
                                                    old_release_version.minor,
                                                    old_release_version.patch,
                                                    old_build_version_1.build + 1))]

\* the explicit mode with the full version built on the old release version
next_versions_OldRelease4(a, old_release_version, old_build_version_1) ==
    IF a.has_version /\ a.version # <<>>
    THEN LET new_release_version_3 == parse_version_3(strip(a.version))
         IN  IF IsFailed(new_release_version_3) THEN Failed("version")
             ELSE [release_version_3 |-> formatted3(new_release_version_3),
                   build_version_1   |-> formatted1(Version1(0)),
                   build_version_4   |-> formatted4(Version4(old_release_version.major,
                                                             old_release_version.minor,
                                                             old_release_version.patch,
                                                             0))]
    ELSE [release_version_3 |-> formatted3(old_release_version),
          build_version_1   |-> formatted1(Version1(old_build_version_1.build + 1)),
          build_version_4   |-> formatted4(Version4(old_release_version.major,
                                                    old_release_version.minor,
                                                    old_release_version.patch,
                                                    old_build_version_1.build + 1))]

\* the increment mode with the full version built on the old build counter
next_versions_OldBuild4(a, old_release_version, old_build_version_1) ==
    IF a.has_version /\ a.version # <<>>
    THEN LET new_release_version_3 == parse_version_3(strip(a.version))
         IN  IF IsFailed(new_release_version_3) THEN Failed("version")
             ELSE [release_version_3 |-> formatted3(new_release_version_3),
                   build_version_1   |-> formatted1(Version1(0)),
                   build_version_4   |-> formatted4(Version4(new_release_version_3.major,
                                                             new_release_version_3.minor,
                                                             new_release_version_3.patch,
                                                             0))]
    ELSE [release_version_3 |-> formatted3(old_release_version),
          build_version_1   |-> formatted1(Version1(old_build_version_1.build + 1)),
          build_version_4   |-> formatted4(Version4(old_release_version.major,
                                                    old_release_version.minor,
                                                    old_release_version.patch,
                                                    old_build_version_1.build))]

next_versions(a, old_release_version, old_build_version_1) ==
    IF a.has_version /\ a.version # <<>>
    THEN LET new_release_version_3 == parse_version_3(strip(a.version))
         IN  IF IsFailed(new_release_version_3) THEN Failed("version")
             ELSE [release_version_3 |-> formatted3(new_release_version_3),
                   build_version_1   |-> formatted1(Version1(0)),
                   build_version_4   |-> formatted4(Version4(new_release_version_3.major,
                                                             new_release_version_3.minor,
                                                             new_release_version_3.patch,
                                                             0))]
    ELSE [release_version_3 |-> formatted3(old_release_version),
          build_version_1   |-> formatted1(Version1(old_build_version_1.build + 1)),
          build_version_4   |-> formatted4(Version4(old_release_version.major,
                                                    old_release_version.minor,
                                                    old_release_version.patch,
                                                    old_build_version_1.build + 1))]

\* lines 343-350
commit_message(channel, new_build_version_4) ==
    [bump |-> new_build_version_4,
     note |-> CASE channel = "internal" -> "(Internal)"
                [] channel = "beta"     -> "(Beta)"
                [] channel = "nightly"  -> "(nightly-%m-%d-%Y)"
                [] OTHER                -> ""]

\* a commit of the repository: its message and the descriptors it holds
Commit(message, files) == [message |-> message, files |-> files]

\* lines 354-360
tag_name(channel, new_build_version_4) ==
    [version |-> new_build_version_4,
     suffix  |-> CASE channel = "internal" -> "-internal"
                   [] channel = "nightly"  -> "-nightly"
                   [] channel = "beta"     -> "-beta"
                   [] OTHER                -> ""]

(***************************************************************************)
(* The run.                                                                *)
(***************************************************************************)
\* the process ends with status 1: sys.exit(1) of fail() or of
\* execute_command, or an uncaught exception
Exit1(why) ==
    /\ pc' = "exited"
    /\ exit' = "1"
    /\ err' = why

Init ==
    /\ pc = "idle"
    /\ argv = NoArgv
    /\ args = NoArgs
    /\ \E m \in MainTexts, s \in SecondaryTexts, n \in LastTexts :
           plist = [f \in {"main", "sae", "nse"} |->
                       IF f = "main" THEN m ELSE IF f = "sae" THEN s ELSE n]
    /\ orig = plist
    /\ read = plist
    /\ git0 = [commits |-> <<>>, tags |-> {}, tree |-> Clean]
    /\ statusOut = FALSE
    /\ diffOut = FALSE
    /\ converted = <<>>
    /\ written = <<>>
    /\ old = None
    /\ new = None
    /\ issued = <<>>
    /\ commits = <<>>
    /\ tags = {}
    /\ tree = Clean
    /\ exit = "none"
    /\ err = "none"
    /\ pin = <<>>
    /\ pout = None

\* the command is invoked: argparse, lines 238-250; parse_args ends the
\* process itself on --help and on a command line it refuses
StartRun ==
    /\ pc = "idle"
    /\ Len(commits) < MaxBumps
    /\ \E a \in CommandLines :
           /\ argv' = a
           /\ LET r == parse_args(a)
              IN  IF "exit" \in DOMAIN r
                  THEN /\ pc' = "exited"
                       /\ exit' = r.exit
                       /\ err' = IF r.exit = "0" THEN "help" ELSE "usage"
                       /\ UNCHANGED args
                  ELSE /\ args' = r
                       /\ pc' = "discover"
                       /\ UNCHANGED <<exit, err>>
    /\ UNCHANGED <<plist, orig, read, git0, statusOut, diffOut, converted, written, old,
                   new, issued, commits, tags, tree, pin, pout>>

\* lines 252-265: the project root and the three descriptors are found or not
Discover ==
    /\ pc = "discover"
    /\ \E found \in BOOLEAN :
           IF found THEN pc' = "status" /\ UNCHANGED <<exit, err>>
           ELSE Exit1("not found")
    /\ UNCHANGED <<argv, args, plist, orig, read, git0, statusOut, diffOut, converted, written, old,
                   new, issued, commits, tags, tree, pin, pout>>

\* lines 267-270: git status --porcelain; it reports the changes of the
\* tree and the untracked files, if there are any
GitStatus ==
    /\ pc = "status"
    /\ \E ok \in BOOLEAN, output \in (IF tree # Clean THEN {TRUE} ELSE BOOLEAN) :
           IF ~ok THEN Exit1("subprocess") /\ UNCHANGED statusOut
           ELSE /\ statusOut' = output
                /\ IF output THEN Exit1("dirty")
                   ELSE pc' = "diff" /\ UNCHANGED <<exit, err>>
    /\ UNCHANGED <<argv, args, plist, orig, read, git0, diffOut, converted, written, old,
                   new, issued, commits, tags, tree, pin, pout>>

\* the diff query with its report ignored
GitDiff_NoCheck ==
    /\ pc = "diff"
    /\ \E ok \in BOOLEAN, output \in BOOLEAN :
           IF ~ok THEN Exit1("subprocess") /\ UNCHANGED diffOut
           ELSE diffOut' = output /\ pc' = "convert" /\ UNCHANGED <<exit, err>>
    /\ UNCHANGED <<argv, args, plist, orig, read, git0, statusOut, converted, written, old,
                   new, issued, commits, tags, tree, pin, pout>>

\* lines 271-274: git diff --shortstat; it runs after the status query, on
\* a tree another process may have written to in between
GitDiff ==
    /\ pc = "diff"
    /\ \E ok \in BOOLEAN, output \in BOOLEAN :
           IF ~ok THEN Exit1("subprocess") /\ UNCHANGED diffOut
           ELSE /\ diffOut' = output
                /\ IF output THEN Exit1("dirty")
                   ELSE pc' = "convert" /\ UNCHANGED <<exit, err>>
    /\ UNCHANGED <<argv, args, plist, orig, read, git0, statusOut, converted, written, old,
                   new, issued, commits, tags, tree, pin, pout>>

\* lines 282-285: one turn of the loop, plutil -convert xml1 on the next
\* descriptor; plutil writes the file in place, and a failure of plutil is
\* an uncaught CalledProcessError
Convert ==
    /\ pc = "convert"
    /\ \E ok \in BOOLEAN :
           IF ~ok THEN Exit1("subprocess") /\ UNCHANGED <<plist, read, tree, converted>>
           ELSE LET f == Files[Len(converted) + 1]
                    t == plutil(plist[f])
                IN  /\ plist' = [plist EXCEPT ![f] = t]
                    /\ read' = [read EXCEPT ![f] = t]
                    /\ tree' = IF t # plist[f]
                               THEN [tree EXCEPT !.unstaged = @ \cup {f}]
                               ELSE tree
                    /\ converted' = Append(converted, f)
                    /\ pc' = IF Len(converted') = Len(Files) THEN "get" ELSE "convert"
                    /\ UNCHANGED <<exit, err>>
    /\ UNCHANGED <<argv, args, orig, git0, statusOut, diffOut, written, old,
                   new, issued, commits, tags, pin, pout>>

\* line 292: get_versions(main_plist_path)
GetVersions ==
    /\ pc = "get"
    /\ LET r == get_versions(plist["main"])
       IN  IF IsFailed(r) THEN Exit1(r.failed) /\ UNCHANGED old
           ELSE old' = r /\ pc' = "compute" /\ UNCHANGED <<exit, err>>
    /\ UNCHANGED <<argv, args, plist, orig, read, git0, statusOut, diffOut, converted, written,
                   new, issued, commits, tags, tree, pin, pout>>

\* lines 294-332
ComputeVersions ==
    /\ pc = "compute"
    /\ LET r == next_versions(args, old.release, old.build)
       IN  IF IsFailed(r) THEN Exit1(r.failed) /\ UNCHANGED new
           ELSE new' = r /\ pc' = "set" /\ UNCHANGED <<exit, err>>
    /\ UNCHANGED <<argv, args, plist, orig, read, git0, statusOut, diffOut, converted, written, old,
                   issued, commits, tags, tree, pin, pout>>

\* lines 334-335: one turn of the loop, set_versions on the next descriptor
SetVersions ==
    /\ pc = "set"
    /\ LET f == Files[Len(written) + 1]
           r == set_versions(plist[f], new.release_version_3, new.build_version_1,
                             new.build_version_4)
       IN  IF IsFailed(r) THEN Exit1(r.failed) /\ UNCHANGED <<plist, written, tree>>
           ELSE /\ plist' = [plist EXCEPT ![f] = r.text]
                /\ written' = Append(written, f)
                /\ tree' = IF r.text # plist[f]
                           THEN [tree EXCEPT !.unstaged = @ \cup {f}]
                           ELSE tree
                /\ pc' = IF Len(written') = Len(Files) THEN "add" ELSE "set"
                /\ UNCHANGED <<exit, err>>
    /\ UNCHANGED <<argv, args, orig, read, git0, statusOut, diffOut, converted, old, new, issued,
                   commits, tags, pin, pout>>

\* lines 340-341: execute_command(git add .); it stages what has changed at
\* or below the directory the command is run from, which is the project
\* root or a directory below it
GitAdd ==
    /\ pc = "add"
    /\ issued' = Append(issued, "add")
    /\ \E ok \in BOOLEAN, cwd \in Cwds :
           IF ~ok THEN Exit1("subprocess") /\ UNCHANGED tree
           ELSE /\ tree' = [unstaged |-> tree.unstaged \ Under(cwd),
                            staged   |-> tree.staged \cup (tree.unstaged \cap Under(cwd))]
                /\ pc' = "commit"
                /\ UNCHANGED <<exit, err>>
    /\ UNCHANGED <<argv, args, plist, orig, read, git0, statusOut, diffOut, converted, written, old,
                   new, commits, tags, pin, pout>>

\* the commit with its failure ignored
GitCommit_IgnoreFailure ==
    /\ pc = "commit"
    /\ issued' = Append(issued, "commit")
    /\ \E ok \in (IF tree.staged # {} THEN BOOLEAN ELSE {FALSE}) :
           /\ IF ok THEN /\ commits' = Append(commits,
                                               Commit(commit_message(args.channel,
                                                                     new.build_version_4),
                                                      tree.staged))
                         /\ tree' = [tree EXCEPT !.staged = {}]
              ELSE UNCHANGED <<commits, tree>>
           /\ pc' = "tag"
           /\ UNCHANGED <<exit, err>>
    /\ UNCHANGED <<argv, args, plist, orig, read, git0, statusOut, diffOut, converted, written, old,
                   new, tags, pin, pout>>

\* lines 343-352: execute_command(git commit -m ..); git refuses to commit
\* when nothing is staged
GitCommit ==
    /\ pc = "commit"
    /\ issued' = Append(issued, "commit")
    /\ \E ok \in (IF tree.staged # {} THEN BOOLEAN ELSE {FALSE}) :
           IF ~ok THEN Exit1("subprocess") /\ UNCHANGED <<commits, tree>>
           ELSE /\ commits' = Append(commits,
                                     Commit(commit_message(args.channel,
                                                           new.build_version_4),
                                            tree.staged))
                /\ tree' = [tree EXCEPT !.staged = {}]
                /\ pc' = "tag"
                /\ UNCHANGED <<exit, err>>
    /\ UNCHANGED <<argv, args, plist, orig, read, git0, statusOut, diffOut, converted, written, old,
                   new, tags, pin, pout>>

\* lines 354-363: execute_command(git tag ..); git refuses a tag that exists
GitTag ==
    /\ pc = "tag"
    /\ issued' = Append(issued, "tag")
    /\ LET t == tag_name(args.channel, new.build_version_4)
       IN  \E ok \in (IF t \in tags THEN {FALSE} ELSE BOOLEAN) :
               IF ~ok THEN Exit1("subprocess") /\ UNCHANGED tags
               ELSE /\ tags' = tags \cup {t}
                    /\ pc' = "exited"
                    /\ exit' = "0"
                    /\ UNCHANGED err
    /\ UNCHANGED <<argv, args, plist, orig, read, git0, statusOut, diffOut, converted, written, old,
                   new, commits, tree, pin, pout>>

\* the process is gone: what is left of the run is the descriptors and the
\* repository
Finish ==
    /\ pc = "exited"
    /\ pc' = "idle"
    /\ argv' = NoArgv
    /\ args' = NoArgs
    /\ orig' = plist
    /\ read' = plist
    /\ git0' = [commits |-> commits, tags |-> tags, tree |-> tree]
    /\ statusOut' = FALSE
    /\ diffOut' = FALSE
    /\ converted' = <<>>
    /\ written' = <<>>
    /\ old' = None
    /\ new' = None
    /\ issued' = <<>>
    /\ exit' = "none"
    /\ err' = "none"
    /\ UNCHANGED <<plist, commits, tags, tree, pin, pout>>

Next ==
    \/ StartRun
    \/ Discover
    \/ GitStatus
    \/ GitDiff
    \/ Convert
    \/ GetVersions
    \/ ComputeVersions
    \/ SetVersions
    \/ GitAdd
    \/ GitCommit
    \/ GitTag
    \/ Finish

Spec == Init /\ [][Next]_vars

(***************************************************************************)
(* The parsers on their own: every string over ParseChars of at most       *)
(* MaxLen characters is handed to parse_version_1 and to parse_version_3.  *)
(***************************************************************************)
ParseChars == {"0", "1", ".", "-", "+", "NL"}

ParseInputs == UNION {[1..n -> ParseChars] : n \in 0..MaxLen}

InitParse ==
    /\ pc = "parse"
    /\ argv = NoArgv
    /\ args = NoArgs
    /\ plist = [f \in {"main", "sae", "nse"} |-> MainUsual]
    /\ orig = plist
    /\ read = plist
    /\ git0 = [commits |-> <<>>, tags |-> {}, tree |-> Clean]
    /\ statusOut = FALSE
    /\ diffOut = FALSE
    /\ converted = <<>>
    /\ written = <<>>
    /\ old = None
    /\ new = None
    /\ issued = <<>>
    /\ commits = <<>>
    /\ tags = {}
    /\ tree = Clean
    /\ exit = "none"
    /\ err = "none"
    /\ pin \in ParseInputs
    /\ pout = None

ParseVersion1 ==
    /\ pc = "parse"
    /\ pout = None
    /\ pout' = [parser |-> "parse_version_1", result |-> parse_version_1(pin)]
    /\ UNCHANGED <<pc, argv, args, plist, orig, read, git0, statusOut, diffOut, converted, written, old,
                   new, issued, commits, tags, tree, exit, err, pin>>

ParseVersion3 ==
    /\ pc = "parse"
    /\ pout = None
    /\ pout' = [parser |-> "parse_version_3", result |-> parse_version_3(pin)]
    /\ UNCHANGED <<pc, argv, args, plist, orig, read, git0, statusOut, diffOut, converted, written, old,
                   new, issued, commits, tags, tree, exit, err, pin>>

NextParse ==
    \/ ParseVersion1
    \/ ParseVersion3

SpecParse == InitParse /\ [][NextParse]_vars

(***************************************************************************)
(* What the properties below read off a state.                             *)
(***************************************************************************)
Range(q) == {q[i] : i \in 1..Len(q)}

FileSet == Range(Files)

\* the run was given a --version the script takes as one (line 294)
Explicit == args.has_version /\ args.version # <<>>

HasMarker(text, key) == search(text, key, AnyDigitsAndDots).found

HasAllMarkers(text) == \A key \in {"KS", "KV", "K4"} : HasMarker(text, key)

\* the value under the first marker of the key, <<>> when there is none
ValueOf(text, key) ==
    LET m == search(text, key, AnyDigitsAndDots)
    IN  IF m.found THEN group1(text, m) ELSE <<>>

\* the release version and the build counter as get_versions reads them
ReadRelease(text) ==
    LET m == search(text, "KS", ReleasePattern)
    IN  IF m.found THEN group1(text, m) ELSE <<>>

ReadBuild(text) ==
    LET m == search(text, "KV", BuildPattern)
    IN  IF m.found THEN group1(text, m) ELSE <<>>

\* the descriptor holds the triple under its three markers
Carries(text, triple) ==
    /\ ValueOf(text, "KS") = triple.release_version_3
    /\ ValueOf(text, "KV") = triple.build_version_1
    /\ ValueOf(text, "K4") = triple.build_version_4

\* text with the edits [m, v] applied from the last span to the first, every
\* span taken from text as it is before the first edit
RECURSIVE PatchDescending(_, _)
PatchDescending(text, edits) ==
    IF edits = {} THEN text
    ELSE LET e == CHOOSE x \in edits : \A y \in edits : y.m.start <= x.m.start
         IN  PatchDescending(splice(text, e.m, e.v), edits \ {e})

\* the three marker value regions of text, each with its new value
Edits(text, triple) ==
    {[m |-> search(text, "KS", AnyDigitsAndDots), v |-> triple.release_version_3],
     [m |-> search(text, "KV", AnyDigitsAndDots), v |-> triple.build_version_1],
     [m |-> search(text, "K4", AnyDigitsAndDots), v |-> triple.build_version_4]}

\* index of the first occurrence of the key in text, 0 when there is none
FirstOccurrence(text, key) ==
    IF \A i \in 1..Len(text) : text[i] # key THEN 0
    ELSE CHOOSE i \in 1..Len(text) : text[i] = key /\ \A j \in 1..(i - 1) : text[j] # key

\* index of the key of the match m in text
KeyOf(text, key, m) ==
    CHOOSE i \in 1..Len(text) : text[i] = key /\ SkipWhitespace(text, i + 1) + 1 = m.start

\* a component of s is a run of two or more digits that starts with a zero
HasLeadingZero(s) ==
    \E i \in 1..(Len(s) - 1) :
        /\ s[i] = "0"
        /\ s[i + 1] \in Digit
        /\ (i = 1 \/ s[i - 1] \notin Digit)

\* the run ended and neither report of the pre-flight check was non-empty
EndedFromCleanTree ==
    pc = "exited" /\ git0.tree = Clean /\ ~statusOut /\ ~diffOut

\* the run went through all its steps and exited with status 0 (a run asked
\* for --help exits with status 0 at line 246, before its first step)
Completed == pc = "exited" /\ exit = "0" /\ err # "help"

\* the descriptors whose text differs from the text at the start of the run
Rewritten == {f \in FileSet : plist[f] # orig[f]}

\* the build counter the descriptor holds, in the xml or in the binary form
StoredBuild(text) == ReadBuild(xml1(text))

\* what plutil has done when the run has come this far: the descriptors are
\* converted in the order main, share extension, notification service
\* extension, a descriptor not yet converted is as it was when the run
\* started, and a converted one was read as plutil left it
ConvertedInTurn ==
    /\ \E k \in 0..Len(Files) : converted = SubSeq(Files, 1, k)
    /\ \A f \in FileSet \ Range(converted) : plist[f] = orig[f] /\ read[f] = orig[f]
    /\ \A f \in Range(converted) : read[f] = plutil(orig[f])
    /\ written # <<>> => converted = Files

NothingChanged ==
    /\ plist = orig
    /\ commits = git0.commits
    /\ tags = git0.tags
    /\ tree = git0.tree

EverythingChanged ==
    /\ written = Files
    /\ \A f \in FileSet : Carries(plist[f], new)
    /\ Len(commits) = Len(git0.commits) + 1
    /\ SubSeq(commits, 1, Len(git0.commits)) = git0.commits
    /\ commits[Len(commits)].message = commit_message(args.channel, new.build_version_4)
    /\ tags = git0.tags \cup {tag_name(args.channel, new.build_version_4)}
    /\ tag_name(args.channel, new.build_version_4) \notin git0.tags

(***************************************************************************)
(* Properties.                                                             *)
(***************************************************************************)
\* C1: when git status --porcelain or git diff --shortstat reports something
\* at the pre-flight check, the run exits with status 1 and has written
\* nothing: no descriptor converted, none rewritten, no git add, commit or
\* tag issued, and the repository is as it was when the run started.
C1_DirtyTreeAborts ==
    (statusOut \/ diffOut) =>
        /\ pc = "exited"
        /\ exit = "1"
        /\ converted = <<>>
        /\ written = <<>>
        /\ issued = <<>>
        /\ NothingChanged

C1_Witness == pc = "exited" /\ diffOut /\ exit = "1" /\ commits # <<>>

\* C2 as stated: a run that fails for a missing marker or a malformed
\* version string has rewritten none of the three descriptors.
C2_NoWriteOnAnyDefect ==
    (pc = "exited" /\ err \in {"marker", "version"}) => written = <<>>

\* C2 as amended: plutil converts all three descriptors before anything is
\* validated, and a descriptor is validated when its own turn to be written
\* comes.  A descriptor that, as plutil left it, lacks a marker is never
\* rewritten by set_versions, nor are the descriptors after it: they stay
\* as plutil left them; the descriptors before it have been rewritten in
\* full; and when the defect is in the main descriptor or in a version
\* string, set_versions has rewritten none of the three.
C2_ValidatedInTurn ==
    /\ \A f \in FileSet : plist[f] = read[f] \/ HasAllMarkers(read[f])
    /\ (pc = "exited" /\ err \in {"marker", "version"}) =>
           /\ converted = Files
           /\ \A f \in FileSet : read[f] = plutil(orig[f])
           /\ \E k \in 0..(Len(Files) - 1) :
                  /\ written = SubSeq(Files, 1, k)
                  /\ err = "marker" /\ new # None => ~HasAllMarkers(read[Files[k + 1]])
           /\ \A f \in Range(written) : Carries(plist[f], new)
           /\ \A f \in FileSet \ Range(written) : plist[f] = read[f]
           /\ (new = None \/ ~HasAllMarkers(read["main"])) => written = <<>>

C2_Witness ==
    /\ pc = "exited"
    /\ err = "marker"
    /\ written = <<"main">>
    /\ plist["main"] # read["main"]
    /\ ~HasMarker(read["sae"], "KV")
    /\ read["sae"] # orig["sae"]
    /\ plist["sae"] = read["sae"]

\* C3 as stated: a run that starts from a clean tree ends with nothing
\* changed or with everything changed.
C3_AllOrNothing ==
    EndedFromCleanTree => (NothingChanged \/ EverythingChanged)

\* C3 as amended: a run that starts from a clean tree and goes through all
\* its steps to exit with status 0 has changed everything: all three
\* descriptors carry the new versions, the commit and the tag exist; the
\* commit holds the rewritten descriptors at or below the directory the
\* command was run from and the others are left modified in the tree.  A
\* run that argparse ends (--help, a command line it refuses) has changed
\* nothing.  A run that exits with status 1 has done the steps up to the
\* failing one and has undone none: the descriptors are converted by plutil
\* and then rewritten in the order main, share extension, notification
\* service extension, a descriptor the run has converted and not rewritten
\* is left as plutil wrote it, the commit is made only with all three
\* rewritten, and no tag is made by a run that fails.
C3_PrefixOfSteps ==
    EndedFromCleanTree =>
        /\ Completed =>
               /\ EverythingChanged
               /\ commits[Len(commits)].files # {}
               /\ commits[Len(commits)].files \cup tree.unstaged = Rewritten
               /\ commits[Len(commits)].files \cap tree.unstaged = {}
               /\ tree.staged = {}
        /\ err \in {"help", "usage"} => NothingChanged /\ written = <<>> /\ issued = <<>>
        /\ exit = "2" <=> err = "usage"
        /\ ConvertedInTurn
        /\ exit = "1" =>
               /\ \E k \in 0..Len(Files) : written = SubSeq(Files, 1, k)
               /\ \A f \in Range(written) : Carries(plist[f], new)
               /\ \A f \in FileSet \ Range(written) : plist[f] = read[f]
               /\ tree.unstaged \cup tree.staged \cup (IF commits = git0.commits THEN {}
                      ELSE commits[Len(commits)].files) = Rewritten
               /\ tree.staged # {} => written = Files
               /\ \/ commits = git0.commits
                  \/ /\ written = Files
                     /\ Len(commits) = Len(git0.commits) + 1
                     /\ SubSeq(commits, 1, Len(git0.commits)) = git0.commits
                     /\ commits[Len(commits)].message =
                            commit_message(args.channel, new.build_version_4)
                     /\ tree.staged = {}
               /\ tags = git0.tags

C3_Witness ==
    /\ EndedFromCleanTree
    /\ exit = "1"
    /\ written = Files
    /\ plist # orig
    /\ read["sae"] # orig["sae"]
    /\ commits # git0.commits
    /\ tags = git0.tags

\* C4: after a run that goes through all its steps and exits with status 0
\* the three descriptors hold the same CFBundleShortVersionString and the
\* same CFBundleVersion, whatever the secondary descriptors held before.
C4_DescriptorsAgree ==
    Completed =>
        \A f \in FileSet :
            /\ ValueOf(plist[f], "KS") # <<>>
            /\ ValueOf(plist[f], "KV") # <<>>
            /\ ValueOf(plist[f], "KS") = ValueOf(plist["main"], "KS")
            /\ ValueOf(plist[f], "KV") = ValueOf(plist["main"], "KV")
            /\ ReadRelease(plist[f]) = ValueOf(plist[f], "KS")
            /\ ReadBuild(plist[f]) = ValueOf(plist[f], "KV")

C4_Witness ==
    /\ Completed
    /\ ValueOf(orig["sae"], "KS") # ValueOf(orig["main"], "KS")
    /\ ValueOf(orig["nse"], "KV") # ValueOf(orig["main"], "KV")
    /\ ValueOf(orig["sae"], "KS") # ValueOf(orig["nse"], "KS")

\* C5: in every descriptor the run has written, also when the run fails
\* later, the OWSBundleVersion4 value is the CFBundleShortVersionString
\* value, a dot and the CFBundleVersion value of the same file; the computed
\* full version is the computed release version, a dot and the computed
\* build counter, whatever full version was stored before.
C5_Version4IsConcatenation ==
    /\ new # None =>
           new.build_version_4 = new.release_version_3 \o <<".">> \o new.build_version_1
    /\ \A f \in Range(written) :
           /\ ValueOf(plist[f], "KS") # <<>>
           /\ ValueOf(plist[f], "KV") # <<>>
           /\ ValueOf(plist[f], "K4") =
                  ValueOf(plist[f], "KS") \o <<".">> \o ValueOf(plist[f], "KV")

C5_Witness ==
    /\ pc = "exited" /\ exit = "1"
    /\ "sae" \in Range(written)
    /\ Explicit
    /\ ValueOf(orig["sae"], "K4") #
           ValueOf(orig["sae"], "KS") \o <<".">> \o ValueOf(orig["sae"], "KV")

\* C6: over an invocation the build counter of the main descriptor does not
\* decrease, unless the invocation was given a --version; then it is 0 once
\* the main descriptor is rewritten.  This holds at every point of a run,
\* whether the run goes on to succeed or to fail (and plainly so while the
\* run has not written the main descriptor, the first disjunct).
C6_BuildCounterMonotonic ==
    \/ plist["main"] = orig["main"] /\ "main" \notin Range(written)
    \/ StoredBuild(orig["main"]) # <<>> =>
           /\ StoredBuild(plist["main"]) # <<>>
           /\ LET before == DigitsToInt(StoredBuild(orig["main"]))
                  after  == DigitsToInt(StoredBuild(plist["main"]))
              IN  IF Explicit
                  THEN /\ after < before => after = 0
                       /\ "main" \in Range(written) => after = 0
                  ELSE after >= before

C6_Witness ==
    /\ pc = "exited"
    /\ Len(commits) > 1
    /\ ~Explicit
    /\ orig["main"] # MainUsual
    /\ ReadBuild(orig["main"]) = <<"1", "0">>
    /\ ReadBuild(plist["main"]) = <<"1", "1">>

\* C7: the computed triple is a function of the release version and the
\* build counter read from the main descriptor (as plutil left it) and of
\* the target.  With a
\* target it is (target, 0, target.0); without one it is (release, build + 1,
\* release.(build + 1)).
C7_NextVersions ==
    new # None =>
        IF Explicit
        THEN /\ new.release_version_3 = strip(args.version)
             /\ new.build_version_1 = <<"0">>
             /\ new.build_version_4 = strip(args.version) \o <<".", "0">>
        ELSE LET release == ReadRelease(read["main"])
                 build   == NatToStr(DigitsToInt(ReadBuild(read["main"])) + 1)
             IN  /\ new.release_version_3 = release
                 /\ new.build_version_1 = build
                 /\ new.build_version_4 = release \o <<".">> \o build

C7_Witness ==
    /\ new # None
    /\ ~Explicit
    /\ new.release_version_3 = V123
    /\ new.build_version_1 = <<"1", "0">>
    /\ new.build_version_4 = V123 \o <<".", "1", "0">>

\* C8: a descriptor set_versions has rewritten differs from the text
\* set_versions read, which is the text plutil left in the file, only in the
\* three marker value regions of that text: it is that text with the three
\* regions replaced, also when a new value is longer or shorter than the
\* old one.
C8_OnlyValueRegionsChange ==
    \A f \in Range(written) :
        plist[f] = PatchDescending(read[f], Edits(read[f], new))

C8_Witness ==
    /\ "main" \in Range(written)
    /\ orig["main"] = MainUsual
    /\ read["main"] # orig["main"]
    /\ Len(ValueOf(plist["main"], "KV")) # Len(ValueOf(read["main"], "KV"))
    /\ Len(plist["main"]) # Len(read["main"])

\* C9: a string a parser accepts is the formatted form of the value parsed
\* from it, and a string with a leading zero in a component is rejected.
C9_ParseRoundTrips ==
    pout # None =>
        /\ ~IsFailed(pout.result) =>
               IF pout.parser = "parse_version_1"
               THEN formatted1(pout.result) = pin
               ELSE formatted3(pout.result) = pin
        /\ HasLeadingZero(pin) => IsFailed(pout.result)

C9_Witness ==
    /\ pout # None
    /\ pout.parser = "parse_version_3"
    /\ pin = <<"0", "1", ".", "0", ".", "1">>
    /\ IsFailed(pout.result)

\* C10: the value get_versions reads and the value set_versions overwrites
\* both belong to the first occurrence of their key in the main descriptor,
\* as the two functions read it.
C10_FirstOccurrenceHonored ==
    "main" \in Range(written) =>
        /\ \A key \in {"KS", "KV", "K4"} :
               KeyOf(read["main"], key, search(read["main"], key, AnyDigitsAndDots))
                   = FirstOccurrence(read["main"], key)
        /\ KeyOf(read["main"], "KS", search(read["main"], "KS", ReleasePattern))
               = FirstOccurrence(read["main"], "KS")
        /\ KeyOf(read["main"], "KV", search(read["main"], "KV", BuildPattern))
               = FirstOccurrence(read["main"], "KV")

====
